---- MODULE Spec2Model ----
(***************************************************************************)
(* Model of scripts/process_all_emails.py: the mail pipeline driver        *)
(* (main), the classifier retry loop (classify_and_extract_with_gemini),   *)
(* the existence checker, the attachment handling and the warehouse write. *)
(*                                                                         *)
(* Strings are sequences of tokens, so that concatenation, joining and     *)
(* suffix tests are computed, not assumed.  JSON values returned by the    *)
(* inference service are tagged records: [k |-> "null"], [k |-> "num"],    *)
(* [k |-> "str"], [k |-> "arr"], [k |-> "obj"].                            *)
(***************************************************************************)
EXTENDS Integers, Sequences, FiniteSets, TLC

(***************************************************************************)
(* Bounds of the model.                                                    *)
(***************************************************************************)
MaxBatch == 2
MaxAttach == 2
MaxRuns == 2

(***************************************************************************)
(* Program constants.                                                      *)
(***************************************************************************)
max_retries == 3
base_delay == 5
BodyPrefixLen == 500

None == [k |-> "None"]

(***************************************************************************)
(* JSON values.                                                            *)
(***************************************************************************)
JNull == [k |-> "null"]
JTrue == [k |-> "true"]
JFalse == [k |-> "false"]
JNum(n) == [k |-> "num", n |-> n]
\* A JSON number with a fraction part, w + f/10 with w >= 0: a Python float.
JFloat(w, f) == [k |-> "float", w |-> w, f |-> f]
JStr(s) == [k |-> "str", s |-> s]
JArr(a) == [k |-> "arr", a |-> a]
JObj(o) == [k |-> "obj", o |-> o]

\* Python truth value of a parsed JSON value (None is falsy too).
Truthy(v) ==
    CASE v.k = "None" -> FALSE
      [] v.k = "null" -> FALSE
      [] v.k = "num" -> v.n # 0
      [] v.k = "float" -> v.w # 0 \/ v.f # 0
      [] v.k = "str" -> Len(v.s) > 0
      [] v.k = "arr" -> Len(v.a) > 0
      [] v.k = "obj" -> DOMAIN v.o # {}
      [] v.k = "false" -> FALSE
      [] OTHER -> TRUE

\* dict.get(key, default) on a record used as a dict.
Get(o, key, default) == IF key \in DOMAIN o THEN o[key] ELSE default

\* extracted.get('type') compared with a literal: only a JSON string equal
\* to the literal compares equal.
TypeIs(o, lit) ==
    LET t == Get(o, "type", None)
    IN  t.k = "str" /\ t.s = <<lit>>

(***************************************************************************)
(* String helpers (strings are sequences of tokens).                       *)
(***************************************************************************)
RECURSIVE Remove(_, _)
\* str.replace(c, '') for every token c of drop.
Remove(s, drop) ==
    IF s = <<>> THEN <<>>
    ELSE IF Head(s) \in drop THEN Remove(Tail(s), drop)
         ELSE <<Head(s)>> \o Remove(Tail(s), drop)

RECURSIVE LStrip(_)
LStrip(s) == IF s # <<>> /\ Head(s) = " " THEN LStrip(Tail(s)) ELSE s

RECURSIVE RStrip(_)
RStrip(s) ==
    IF s # <<>> /\ s[Len(s)] = " " THEN RStrip(SubSeq(s, 1, Len(s) - 1)) ELSE s

\* str.strip()
Strip(s) == RStrip(LStrip(s))

\* token.lower() for the extension tokens that occur in file names.
LowerTok(t) ==
    CASE t = ".XLSX" -> ".xlsx"
      [] t = ".XLS" -> ".xls"
      [] t = ".XLSM" -> ".xlsm"
      [] OTHER -> t

\* s.lower().endswith(ext): the extension is the last token of a file name.
EndsWithLower(s, ext) == s # <<>> /\ LowerTok(s[Len(s)]) = ext

RECURSIVE JoinCommaReversed(_)
\* A join that puts the newest URL first.
JoinCommaReversed(urls) ==
    IF urls = <<>> THEN <<>>
    ELSE IF Len(urls) = 1 THEN urls[1]
         ELSE JoinCommaReversed(Tail(urls)) \o <<", ">> \o urls[1]

RECURSIVE JoinComma(_)
\* ", ".join(urls)
JoinComma(urls) ==
    IF urls = <<>> THEN <<>>
    ELSE IF Len(urls) = 1 THEN urls[1]
         ELSE urls[1] \o <<", ">> \o JoinComma(Tail(urls))

(***************************************************************************)
(* generate_mail_fingerprint: SHA-256 of                                   *)
(* "sender_email|subject|body[:500]|sent_at".  The digest is modelled as   *)
(* injective on its input string, so the fingerprint is the input string.  *)
(***************************************************************************)
\* A fingerprint over the whole body.
generate_mail_fingerprint_whole(sender_email, subject, body, sent_at) ==
    sender_email \o <<"|">> \o subject \o <<"|">> \o body \o <<"|">> \o sent_at

\* A fingerprint that leaves the send time out.
generate_mail_fingerprint_undated(sender_email, subject, body, sent_at) ==
    LET body_part == IF body # <<>>
                     THEN SubSeq(body, 1, IF Len(body) < BodyPrefixLen
                                          THEN Len(body) ELSE BodyPrefixLen)
                     ELSE <<>>
    IN  sender_email \o <<"|">> \o subject \o <<"|">> \o body_part

generate_mail_fingerprint(sender_email, subject, body, sent_at) ==
    LET body_part == IF body # <<>>
                     THEN SubSeq(body, 1, IF Len(body) < BodyPrefixLen
                                          THEN Len(body) ELSE BodyPrefixLen)
                     ELSE <<>>
    IN  sender_email \o <<"|">> \o subject \o <<"|">> \o body_part
            \o <<"|">> \o sent_at

(***************************************************************************)
(* Integer parsing: int(s) on a string of character tokens.                *)
(***************************************************************************)
Digits == <<"0", "1", "2", "3", "4", "5", "6", "7", "8", "9">>

IsDigit(c) == \E d \in 1..10 : Digits[d] = c

DigitVal(c) == (CHOOSE d \in 1..10 : Digits[d] = c) - 1

RECURSIVE DigitsValue(_, _)
DigitsValue(s, acc) ==
    IF s = <<>> THEN acc ELSE DigitsValue(Tail(s), acc * 10 + DigitVal(Head(s)))

\* int(s): surrounding blanks are ignored, one sign is allowed, the rest
\* must be one or more decimal digits; anything else raises ValueError.
ParseInt(s) ==
    LET t == Strip(s)
        neg == t # <<>> /\ Head(t) = "-"
        signed == t # <<>> /\ Head(t) \in {"-", "+"}
        d == IF signed THEN Tail(t) ELSE t
        ok == d # <<>> /\ \A p \in 1..Len(d) : IsDigit(d[p])
    IN  [ok |-> ok,
         val |-> IF ok THEN (IF neg THEN 0 - DigitsValue(d, 0) ELSE DigitsValue(d, 0))
                 ELSE 0]

\* int(str(v).replace(',', '')) inside try/except: 0 when the cast raises.
\* str() of a float, a JSON array, an object or true is never a decimal
\* literal.
IntOfStrippedStr(v) ==
    CASE v.k = "num" -> v.n
      [] v.k = "str" -> ParseInt(Remove(v.s, {","})).val
      [] OTHER -> 0

\* int(v) inside try/except: 0 when the cast raises (TypeError for an
\* array or an object, ValueError for a string that is no decimal literal);
\* int(True) is 1, int of a float drops the fraction.
IntOf(v) ==
    CASE v.k = "num" -> v.n
      [] v.k = "float" -> v.w
      [] v.k = "str" -> ParseInt(v.s).val
      [] v.k = "true" -> 1
      [] OTHER -> 0

\* Lines 463-487: the numeric fields of the result are coerced, each only
\* when its value is truthy.
CoerceField(o, key, castWithComma) ==
    IF key \in DOMAIN o /\ Truthy(o[key])
    THEN [o EXCEPT ![key] = JNum(IF castWithComma THEN IntOfStrippedStr(@)
                                 ELSE IntOf(@))]
    ELSE o

NormalizeNumbers(o) ==
    IF TypeIs(o, "project") THEN CoerceField(o, "price", TRUE)
    ELSE IF TypeIs(o, "engineer")
         THEN CoerceField(CoerceField(CoerceField(o, "monthlyRate", TRUE),
                                      "yearsOfExperience", FALSE),
                          "age", FALSE)
         ELSE o

(***************************************************************************)
(* classify_and_extract_with_gemini                                        *)
(***************************************************************************)
model_names == <<"models/gemini-2.0-flash">>

\* What one inference request can yield: an exception raised by the request
\* (with its message), a response text that json.loads rejects, or a parsed
\* JSON value.
ExcOutcome(msg) == [kind |-> "exception", msg |-> msg, value |-> None]
JsonErrorOutcome == [kind |-> "json_error", msg |-> <<>>, value |-> None]
JsonOutcome(v) == [kind |-> "json", msg |-> <<>>, value |-> v]

\* "429" in str(e) or "quota" in str(e).lower()
LowerWord(t) == IF t \in {"Quota", "QUOTA"} THEN "quota" ELSE t

IsRateLimit(msg) ==
    \E p \in 1..Len(msg) : msg[p] = "429" \/ LowerWord(msg[p]) = "quota"

\* A backoff made after every exception.
ExceptionStepSleepy(attempt, msg) ==
    [ctl |-> IF IsRateLimit(msg) THEN "continue" ELSE "break",
     sleep |-> <<base_delay * (2 ^ attempt)>>, result |-> None]

\* A backoff that grows by base_delay per attempt instead of doubling.
ExceptionStepLinear(attempt, msg) ==
    IF IsRateLimit(msg)
    THEN [ctl |-> "continue", sleep |-> <<base_delay * (attempt + 1)>>, result |-> None]
    ELSE [ctl |-> "break", sleep |-> <<>>, result |-> None]

\* The except clauses of lines 495-507.
ExceptionStep(attempt, msg) ==
    IF IsRateLimit(msg)
    THEN [ctl |-> "continue", sleep |-> <<base_delay * (2 ^ attempt)>>, result |-> None]
    ELSE [ctl |-> "break", sleep |-> <<>>, result |-> None]

\* The body of one iteration of the retry loop (lines 436-507) for the
\* zero-based attempt index and the outcome of its request: how the
\* iteration ends (return, continue, break), the sleep it makes, its result.
AttemptStep(attempt, outcome, email_body) ==
    LET v == outcome.value
        isList == v.k = "arr"
        first == IF isList /\ Len(v.a) > 0 THEN v.a[1] ELSE v
    IN  CASE outcome.kind = "exception" -> ExceptionStep(attempt, outcome.msg)
          [] outcome.kind = "json_error" ->
                [ctl |-> "break", sleep |-> <<>>, result |-> None]
          [] outcome.kind = "json" /\ isList /\ Len(v.a) = 0 ->
                [ctl |-> "continue", sleep |-> <<>>, result |-> None]
          [] outcome.kind = "json" /\ first.k # "obj" ->
                ExceptionStep(attempt, <<"AttributeError: object has no attribute 'get'">>)
          [] OTHER ->
                [ctl |-> "return", sleep |-> <<>>,
                 result |-> JObj(("mainText" :> JStr(email_body))
                                     @@ NormalizeNumbers(first.o))]

\* The loop headers of lines 434-435: the position (model index, attempt)
\* after an iteration at (m, a) that ended with ctl; model index
\* Len(model_names) + 1 means both loops are over (line 509).
NextPosition(m, a, ctl) ==
    IF ctl = "continue" /\ a + 1 < max_retries
    THEN [m |-> m, a |-> a + 1]
    ELSE [m |-> m + 1, a |-> 0]

\* One whole call, for the outcomes of its successive requests: the value
\* returned, the number of requests made and the sleeps made, in order.
RECURSIVE ClassifyFrom(_, _, _, _, _)
ClassifyFrom(outs, email_body, m, a, acc) ==
    IF m > Len(model_names)
    THEN [result |-> None, requests |-> acc.requests, sleeps |-> acc.sleeps]
    ELSE LET st == AttemptStep(a, outs[acc.requests + 1], email_body)
             nacc == [requests |-> acc.requests + 1, sleeps |-> acc.sleeps \o st.sleep]
             pos == NextPosition(m, a, st.ctl)
         IN  IF st.ctl = "return"
             THEN [result |-> st.result, requests |-> nacc.requests,
                   sleeps |-> nacc.sleeps]
             ELSE ClassifyFrom(outs, email_body, pos.m, pos.a, nacc)

classify_and_extract_with_gemini(outs, email_body) ==
    ClassifyFrom(outs, email_body, 1, 0, [requests |-> 0, sleeps |-> <<>>])

(***************************************************************************)
(* Environment of one run: configuration, mail and service responses.      *)
(***************************************************************************)
GCS_BUCKET_NAME == <<"bucket">>
Today == "20261106"

Str(t) == JStr(<<t>>)

\* Attachments as fetch_recent_emails assembles them (lines 308-348): a
\* garbled file name has already been replaced by temp_<timestamp><ext>.
AttachmentPool ==
    << [filename |-> <<"sheet1", ".xlsx">>, is_garbled |-> FALSE],
       [filename |-> <<"temp_", "20261106_071100", ".xls">>, is_garbled |-> TRUE],
       [filename |-> <<"sheet3", ".XLSM">>, is_garbled |-> FALSE],
       [filename |-> <<"temp_", "20261106_071101", ".xlsx">>, is_garbled |-> TRUE] >>

Msg(id, subject, nattach) ==
    [email_id |-> id, sender_email |-> <<"a@x">>, subject |-> subject,
     body |-> <<"b", "o", "d", "y">>, sent_at |-> <<"2026-11-06T07:11:00+00:00">>,
     attachments |-> SubSeq(AttachmentPool, 1, nattach)]

\* Messages 1 and 2 agree on sender, subject, body and send time.
Messages ==
    { Msg("1", <<"s1">>, MaxAttach), Msg("2", <<"s1">>, 0), Msg("3", <<"s2">>, 1) }

Batches == UNION { [1..n -> Messages] : n \in 0..MaxBatch }

\* JSON objects the classification request may answer with.
ResponseObjects ==
    { [type |-> Str("engineer"), engineerName |-> JStr(<<"(", "A.K", ")">>),
       nearestStation |-> JStr(<<"Shinjuku", "EKI">>), yearsOfExperience |-> Str("5")],
      [type |-> Str("engineer"), engineerName |-> JNum(7),
       nearestStation |-> Str("Shinjuku")],
      [type |-> Str("engineer")],
      [type |-> Str("project"), price |-> JStr(<<"8", "0">>)],
      [type |-> Str("other")],
      [type |-> Str("Engineer")] }

ResponseValues ==
    { JObj(o) : o \in ResponseObjects }
        \cup { JArr(<<>>),
               JArr(<<JObj([type |-> Str("project"), price |-> JStr(<<"8", "0">>)]),
                      JObj([type |-> Str("other")])>>),
               JArr(<<Str("project")>>), JNull, Str("project") }

AttemptOutcomes ==
    { JsonOutcome(v) : v \in ResponseValues }
        \cup { JsonErrorOutcome,
               ExcOutcome(<<"429", "Resource exhausted">>),
               ExcOutcome(<<"Quota", "exceeded">>),
               ExcOutcome(<<"500", "Internal error">>) }

\* Every way one call can go: the outcomes of up to
\* Len(model_names) * max_retries requests.
OutcomeSeqs == [1..(Len(model_names) * max_retries) -> AttemptOutcomes]

Bodies == { m.body : m \in Messages }

\* The results one call can give, per message body.
ClassifyOutcomes ==
    [email_body \in Bodies |->
        { classify_and_extract_with_gemini(outs, email_body) : outs \in OutcomeSeqs }]

\* What extract_skills_from_excel can return: None when the request or the
\* parse fails, else the parsed JSON value, whatever it is.
SkillResponses ==
    { None,
      JObj([excel_skills |-> JArr(<<"Java">>)]),
      JObj([excel_skills |-> JArr(<<>>)]),
      JObj([additional_info |-> JNull]),
      JObj([excel_skills |-> JNum(5)]),
      JArr(<<"Java">>),
      JArr(<<>>) }

\* What extract_excel_content can return: None (unreadable), '' or text.
ExcelContents == { None, JStr(<<>>), Str("Java | Python") }

InsertOutcomes == { "ok", "rejected", "exception" }

(***************************************************************************)
(* Helpers of the driver.                                                  *)
(***************************************************************************)
\* A lookup that never matches.
fingerprint_exists_blind(table, fp, queryOK) == FALSE

\* A lookup that compares the newest row only.
fingerprint_exists_last(table, fp, queryOK) ==
    queryOK /\ table # <<>> /\ table[Len(table)].fingerprint = fp

\* A lookup that compares the oldest row only.
fingerprint_exists_first(table, fp, queryOK) ==
    queryOK /\ table # <<>> /\ table[1].fingerprint = fp

\* A lookup that reports a match when the query raises.
fingerprint_exists_closed(table, fp, queryOK) ==
    IF queryOK
    THEN \E r \in 1..Len(table) : table[r].fingerprint = fp
    ELSE TRUE

\* A lookup that does not see the newest row.
fingerprint_exists_lagging(table, fp, queryOK) ==
    queryOK /\ \E r \in 1..(Len(table) - 1) : table[r].fingerprint = fp

\* fingerprint_exists (lines 632-651): the point lookup, False when the
\* query raises.
fingerprint_exists(table, fp, queryOK) ==
    IF queryOK
    THEN \E r \in 1..Len(table) : table[r].fingerprint = fp
    ELSE FALSE

\* upload_to_gcs (lines 60-107): the public URL, None when anything raises.
upload_to_gcs(filename, uploadOK) ==
    IF uploadOK
    THEN JStr(<<"https://storage.googleapis.com/">> \o GCS_BUCKET_NAME
                \o <<"/", "attachments/", Today, "/">> \o filename)
    ELSE None

\* "FULLWIDTH(" and "FULLWIDTH)" stand for U+FF08 and U+FF09, "EKI" for U+99C5.
Parens == {"(", ")", "FULLWIDTH(", "FULLWIDTH)"}

\* Extension chosen for a regenerated name (lines 752-756, 763-767).
ExtOf(filename) ==
    IF EndsWithLower(filename, ".xlsm") THEN ".xlsm"
    ELSE IF EndsWithLower(filename, ".xls") THEN ".xls"
         ELSE ".xlsx"

\* Lines 745-769: the name under which an attachment is uploaded.  raises
\* is TRUE when str.replace is called on a value that is no string.
FinalFilename(attachment, o) ==
    LET engineer_name == Get(o, "engineerName", JStr(<<>>))
        nearest_station == Get(o, "nearestStation", JStr(<<>>))
        ext == ExtOf(attachment.filename)
    IN  IF attachment.is_garbled /\ TypeIs(o, "engineer")
        THEN IF Truthy(engineer_name) /\ Truthy(nearest_station)
             THEN IF engineer_name.k # "str" \/ nearest_station.k # "str"
                  THEN [raises |-> TRUE, name |-> <<>>]
                  ELSE [raises |-> FALSE,
                        name |-> Strip(Remove(engineer_name.s, Parens)) \o <<"_">>
                                   \o Strip(Remove(nearest_station.s, Parens \cup {"EKI"}))
                                   \o <<ext>>]
             ELSE IF Truthy(engineer_name)
                  THEN IF engineer_name.k # "str"
                       THEN [raises |-> TRUE, name |-> <<>>]
                       ELSE [raises |-> FALSE,
                             name |-> Strip(Remove(engineer_name.s, Parens)) \o <<ext>>]
                  ELSE [raises |-> FALSE, name |-> attachment.filename]
        ELSE [raises |-> FALSE, name |-> attachment.filename]

RECURSIVE SetToSeq(_)
SetToSeq(S) ==
    IF S = {} THEN <<>>
    ELSE LET x == CHOOSE y \in S : TRUE IN <<x>> \o SetToSeq(S \ {x})

\* Lines 786-787: "if excel_data and excel_data.get('excel_skills'):
\* excel_skills.extend(excel_data['excel_skills'])".  raises is TRUE when
\* .get is called on a truthy value that is no dict, or extend is given a
\* value that cannot be iterated.
ExtendSkills(skills, excel_data) ==
    IF ~Truthy(excel_data) THEN [raises |-> FALSE, skills |-> skills]
    ELSE IF excel_data.k # "obj" THEN [raises |-> TRUE, skills |-> skills]
    ELSE LET v == Get(excel_data.o, "excel_skills", None)
         IN  IF ~Truthy(v) THEN [raises |-> FALSE, skills |-> skills]
             ELSE CASE v.k = "arr" -> [raises |-> FALSE, skills |-> skills \o v.a]
                    [] v.k = "str" -> [raises |-> FALSE, skills |-> skills \o v.s]
                    [] v.k = "obj" ->
                         [raises |-> FALSE, skills |-> skills \o SetToSeq(DOMAIN v.o)]
                    [] OTHER -> [raises |-> TRUE, skills |-> skills]

\* Skills are asked for whatever the type of the message.
AsksSkillsAnyType(o, excel_text) == Truthy(excel_text)

\* Lines 780-784: extract_skills_from_excel is called for this attachment.
AsksSkills(o, excel_text) == TypeIs(o, "engineer") /\ Truthy(excel_text)

\* convert_to_bigquery_format (lines 511-557); skills is None or a list.
convert_to_bigquery_format(o, email_subject, fp, sent_at, file_url, skills) ==
    IF TypeIs(o, "engineer")
    THEN LET data ==
               [fingerprint |-> fp, sent_at |-> sent_at,
                engineer_name |-> Get(o, "engineerName", JStr(<<>>)),
                years_of_experience |-> Get(o, "yearsOfExperience", JNum(0)),
                monthly_rate |-> Get(o, "monthlyRate", JNum(0)),
                age |-> Get(o, "age", JNum(0)),
                nearest_station |-> Get(o, "nearestStation", JStr(<<>>)),
                main_text |-> Get(o, "mainText", JStr(<<>>)),
                subject |-> email_subject, fileURL |-> file_url]
         IN  IF Truthy(skills)
             THEN ("excel_skills" :> skills.a) @@ data
             ELSE data
    ELSE IF TypeIs(o, "project")
         THEN [fingerprint |-> fp, sent_at |-> sent_at,
               project_name |-> email_subject,
               price |-> Get(o, "price", JNum(0)),
               main_text |-> Get(o, "mainText", JStr(<<>>)),
               subject |-> email_subject, fileURL |-> file_url]
         ELSE None

\* An insert that sends every row to the project table.
InsertTableProject(data_type) == "ProjectData"

\* insert_to_bigquery (lines 654-673): the table the row goes to.
InsertTable(data_type) ==
    IF data_type.k = "str" /\ data_type.s = <<"engineer">>
    THEN "EngineerData" ELSE "ProjectData"

\* An insert that reports success unless the request raised.
insert_to_bigquery_unless_raised(outcome) == outcome # "exception"

\* insert_to_bigquery (lines 664-673): the value returned, True when
\* insert_rows_json returned no errors.  The warehouse has taken the row
\* exactly in that case.
insert_to_bigquery(outcome) == outcome = "ok"

(***************************************************************************)
(* State.                                                                  *)
(***************************************************************************)
VARIABLES
    run,              \* number of runs of main started so far
    pc,               \* "start", "loop", "summary", "returned", "aborted"
    emails,           \* the batch fetch_recent_emails returned
    i,                \* 1-based index of the message being processed
    processed_count, engineer_count, project_count, other_count, skipped_count,
    engineerTable,    \* rows of EngineerData, in insertion order
    projectTable,     \* rows of ProjectData, in insertion order
    stage,            \* where message i is in its lifecycle
    fingerprint, extracted, j, file_urls, excel_skills, bq_data,
    q,                \* outcome of the existence check of message i
    log,              \* external calls made for message i; texts counts the
                      \* attachments whose content came out as non-empty text
    att_log,          \* what each upload made for message i returned, in order
    non_other_count,  \* messages of this run classified engineer or project
    failed_open,      \* fingerprints whose existence check ever failed
    query_failed,     \* some existence check of this run failed
    rerun,            \* this run processes the batch of the previous run
    prev,             \* counters and warehouse as the previous run left them
    c_pc, c_m, c_attempt, c_requests, c_sleeps, c_result, c_outcomes, c_body,
    mbox,             \* the INBOX on the server: per message its id and flags
    mbox0,            \* the INBOX as it was when fetch_recent_emails was called
    conn,             \* the IMAP session: "none", "open", "selected", "loggedout"
    opens,            \* number of IMAP connections opened so far
    f_pc,             \* "idle", "fetching", "returned"
    f_limit, f_ids, f_emails, f_result,
    f_log,            \* what the retrieval of each id gave, in order
    n_pc,             \* "idle", "assembled", "resolved"
    n_part,           \* a MIME part: its decoded file name and Content-Type
    n_att,            \* the attachment assembled from it, None when dropped
    n_o,              \* the classification result of the message
    n_final,          \* the name the attachment is uploaded under
    inst,             \* the pipeline instance that is running: 1 or 2
    parked,           \* the locals of the other instance while it does not run
    writes,           \* the inserts that succeeded, in order, each with its writer
    checked_at        \* Len(writes) when the existence check of message i was made

runVars == <<run, pc, emails, i, processed_count, engineer_count, project_count,
             other_count, skipped_count, engineerTable, projectTable>>
msgVars == <<stage, fingerprint, extracted, j, file_urls, excel_skills, bq_data>>
histVars == <<q, log, att_log, non_other_count, failed_open, query_failed, rerun, prev>>
concVars == <<inst, parked, writes, checked_at>>
driverVars == <<runVars, msgVars, histVars, concVars>>
classifyVars == <<c_pc, c_m, c_attempt, c_requests, c_sleeps, c_result, c_outcomes, c_body>>
fetchVars == <<mbox, mbox0, conn, opens, f_pc, f_limit, f_ids, f_emails, f_result, f_log>>
nameVars == <<n_pc, n_part, n_att, n_o, n_final>>
vars == <<driverVars, classifyVars, fetchVars, nameVars>>

Finished ==
    {"SKIPPED_DUPLICATE", "CLASSIFY_FAILED", "SKIPPED_OTHER", "DROPPED",
     "WRITE_FAILED", "WRITTEN"}

NoQuery == [failed |-> FALSE, found |-> "none"]
NoCalls == [infer |-> 0, skill |-> 0, texts |-> 0, insert |-> 0, target |-> "none"]
NoPrev == [non_other |-> 0, written |-> 0, skipped |-> 0, fps |-> {},
           eng_rows |-> 0, proj_rows |-> 0, query_failed |-> FALSE]

WarehouseFingerprints ==
    { engineerTable[r].fingerprint : r \in 1..Len(engineerTable) }
        \cup { projectTable[r].fingerprint : r \in 1..Len(projectTable) }

\* The locals of an instance of main that has not started.
Fresh ==
    [run |-> 0, pc |-> "start", emails |-> <<>>, i |-> 0,
     processed_count |-> 0, engineer_count |-> 0, project_count |-> 0,
     other_count |-> 0, skipped_count |-> 0,
     stage |-> "NONE", fingerprint |-> <<>>, extracted |-> None, j |-> 0,
     file_urls |-> <<>>, excel_skills |-> <<>>, bq_data |-> None,
     q |-> NoQuery, log |-> NoCalls, att_log |-> <<>>, non_other_count |-> 0,
     query_failed |-> FALSE, rerun |-> FALSE, prev |-> NoPrev, checked_at |-> 0]

DriverInit ==
    /\ inst = 1 /\ parked = Fresh /\ writes = <<>> /\ checked_at = 0
    /\ run = 0 /\ pc = "start" /\ emails = <<>> /\ i = 0
    /\ processed_count = 0 /\ engineer_count = 0 /\ project_count = 0
    /\ other_count = 0 /\ skipped_count = 0
    /\ engineerTable = <<>> /\ projectTable = <<>>
    /\ stage = "NONE" /\ fingerprint = <<>> /\ extracted = None /\ j = 0
    /\ file_urls = <<>> /\ excel_skills = <<>> /\ bq_data = None
    /\ q = NoQuery /\ log = NoCalls /\ att_log = <<>>
    /\ non_other_count = 0 /\ failed_open = {} /\ query_failed = FALSE
    /\ rerun = FALSE /\ prev = NoPrev

ClassifyIdle ==
    /\ c_pc = "idle" /\ c_m = 1 /\ c_attempt = 0 /\ c_requests = 0
    /\ c_sleeps = <<>> /\ c_result = None /\ c_outcomes = <<>> /\ c_body = <<>>

FetchIdle ==
    /\ mbox = <<>> /\ mbox0 = <<>> /\ conn = "none" /\ opens = 0
    /\ f_pc = "idle" /\ f_limit = 0 /\ f_ids = <<>> /\ f_emails = <<>>
    /\ f_result = None /\ f_log = <<>>

NameIdle ==
    /\ n_pc = "idle" /\ n_part = None /\ n_att = None /\ n_o = None
    /\ n_final = None

Init == DriverInit /\ ClassifyIdle /\ FetchIdle /\ NameIdle

(***************************************************************************)
(* main, lines 676-701: the run starts, the batch is fetched, the counters *)
(* are zeroed.  A run can start once the previous one has ended.           *)
(***************************************************************************)
MainStart(batch) ==
    /\ pc \in {"start", "summary", "returned", "aborted"}
    /\ run < MaxRuns
    /\ run' = run + 1
    /\ emails' = batch
    /\ pc' = IF GCS_BUCKET_NAME = <<>> \/ batch = <<>> THEN "returned" ELSE "loop"
    /\ i' = 0
    /\ processed_count' = 0 /\ engineer_count' = 0 /\ project_count' = 0
    /\ other_count' = 0 /\ skipped_count' = 0
    /\ stage' = "NONE" /\ fingerprint' = <<>> /\ extracted' = None /\ j' = 0
    /\ file_urls' = <<>> /\ excel_skills' = <<>> /\ bq_data' = None
    /\ q' = NoQuery /\ log' = NoCalls /\ att_log' = <<>>
    /\ non_other_count' = 0 /\ query_failed' = FALSE
    /\ rerun' = (pc = "summary" /\ batch = emails)
    /\ prev' = [non_other |-> non_other_count, written |-> processed_count,
                skipped |-> skipped_count, fps |-> WarehouseFingerprints,
                eng_rows |-> Len(engineerTable), proj_rows |-> Len(projectTable),
                query_failed |-> query_failed]
    /\ UNCHANGED <<engineerTable, projectTable, failed_open, concVars, classifyVars,
                   fetchVars, nameVars>>

(***************************************************************************)
(* main, lines 703-721: the next message is taken, fingerprinted and       *)
(* looked up in both tables.                                               *)
(***************************************************************************)
DedupCheck(clientOK, engOK, projOK) ==
    /\ pc = "loop"
    /\ i = 0 \/ stage \in Finished
    /\ i < Len(emails)
    /\ LET email_data == emails[i + 1]
           fp == generate_mail_fingerprint(email_data.sender_email, email_data.subject,
                                           email_data.body, email_data.sent_at)
           inEng == clientOK /\ fingerprint_exists(engineerTable, fp, engOK)
           askProj == clientOK /\ ~inEng
           inProj == askProj /\ fingerprint_exists(projectTable, fp, projOK)
           failed == ~clientOK \/ ~engOK \/ (askProj /\ ~projOK)
           \* failed: the client could not be built or a query made raised
       IN  /\ i' = i + 1
           /\ fingerprint' = fp
           /\ q' = [failed |-> failed,
                    found |-> IF inEng THEN "EngineerData"
                              ELSE IF inProj THEN "ProjectData" ELSE "none"]
           /\ IF inEng \/ inProj
              THEN /\ skipped_count' = skipped_count + 1
                   /\ stage' = "SKIPPED_DUPLICATE"
              ELSE /\ skipped_count' = skipped_count
                   /\ stage' = "CLASSIFYING"
           /\ failed_open' = IF failed THEN failed_open \cup {fp} ELSE failed_open
           /\ query_failed' = (query_failed \/ failed)
    \* the locals of the previous iteration are dead from here on
    /\ extracted' = None /\ j' = 0 /\ file_urls' = <<>> /\ excel_skills' = <<>>
    /\ bq_data' = None /\ log' = NoCalls /\ att_log' = <<>>
    /\ checked_at' = Len(writes)
    /\ UNCHANGED <<run, pc, emails, processed_count, engineer_count, project_count,
                   other_count, engineerTable, projectTable, non_other_count,
                   rerun, prev, inst, parked, writes, classifyVars, fetchVars, nameVars>>

(***************************************************************************)
(* main, lines 723-741: the message is classified; a null result and the   *)
(* type 'other' end the iteration.                                         *)
(***************************************************************************)
Classify(r) ==
    /\ pc = "loop" /\ stage = "CLASSIFYING"
    /\ extracted' = r.result
    /\ log' = [log EXCEPT !.infer = r.requests]
    /\ IF r.result = None
       THEN /\ stage' = "CLASSIFY_FAILED"
            /\ UNCHANGED <<other_count, non_other_count>>
       ELSE IF TypeIs(r.result.o, "other")
            THEN /\ stage' = "SKIPPED_OTHER"
                 /\ other_count' = other_count + 1
                 /\ UNCHANGED non_other_count
            ELSE /\ stage' = IF emails[i].attachments # <<>>
                             THEN "ATTACHING" ELSE "ATTACHMENTS_RESOLVED"
                 /\ non_other_count' =
                        IF TypeIs(r.result.o, "engineer") \/ TypeIs(r.result.o, "project")
                        THEN non_other_count + 1 ELSE non_other_count
                 /\ UNCHANGED other_count
    /\ UNCHANGED <<run, pc, emails, i, processed_count, engineer_count, project_count,
                   skipped_count, engineerTable, projectTable, fingerprint, j,
                   file_urls, excel_skills, bq_data, q, att_log, failed_open,
                   query_failed, rerun, prev, concVars, classifyVars, fetchVars,
                   nameVars>>

(***************************************************************************)
(* main, lines 743-787: one iteration of the attachment loop.  An          *)
(* exception raised here is caught nowhere and ends main.                  *)
(***************************************************************************)
Attach(uploadOK, excel_text, excel_data) ==
    /\ pc = "loop" /\ stage = "ATTACHING"
    /\ LET attachment == emails[i].attachments[j + 1]
           o == extracted.o
           fn == FinalFilename(attachment, o)
           gcs_url == upload_to_gcs(fn.name, uploadOK)
           isEng == TypeIs(o, "engineer")
           asks == AsksSkills(o, excel_text)
           ext == IF asks THEN ExtendSkills(excel_skills, excel_data)
                  ELSE [raises |-> FALSE, skills |-> excel_skills]
       IN  /\ att_log' = IF fn.raises THEN att_log ELSE Append(att_log, gcs_url)
           /\ log' = [log EXCEPT !.skill = IF asks /\ ~fn.raises THEN @ + 1 ELSE @,
                                  !.texts = IF isEng /\ Truthy(excel_text) /\ ~fn.raises
                                            THEN @ + 1 ELSE @]
           /\ IF fn.raises
              THEN /\ pc' = "aborted" /\ stage' = "ABORTED"
                   /\ UNCHANGED <<j, file_urls, excel_skills>>
              ELSE /\ file_urls' = IF Truthy(gcs_url) THEN Append(file_urls, gcs_url.s)
                                   ELSE file_urls
                   /\ IF ext.raises
                      THEN /\ pc' = "aborted" /\ stage' = "ABORTED"
                           /\ UNCHANGED <<j, excel_skills>>
                      ELSE /\ excel_skills' = ext.skills
                           /\ j' = j + 1
                           /\ pc' = pc
                           /\ stage' = IF j + 1 < Len(emails[i].attachments)
                                       THEN "ATTACHING" ELSE "ATTACHMENTS_RESOLVED"
    /\ UNCHANGED <<run, emails, i, processed_count, engineer_count, project_count,
                   other_count, skipped_count, engineerTable, projectTable,
                   fingerprint, extracted, bq_data, q, non_other_count, failed_open,
                   query_failed, rerun, prev, concVars, classifyVars, fetchVars,
                   nameVars>>

(***************************************************************************)
(* main, lines 789-811: the row is built and inserted.                     *)
(***************************************************************************)
Write(outcome) ==
    /\ pc = "loop" /\ stage = "ATTACHMENTS_RESOLVED"
    /\ LET o == extracted.o
           file_url_str == IF file_urls # <<>> THEN JoinComma(file_urls) ELSE <<>>
           data == convert_to_bigquery_format(o, emails[i].subject, fingerprint,
                       emails[i].sent_at, file_url_str,
                       IF excel_skills # <<>> THEN JArr(excel_skills) ELSE None)
           data_type == Get(o, "type", None)
           success == insert_to_bigquery(outcome)
           taken == outcome = "ok"
       IN  /\ bq_data' = data
           /\ IF data = None
              THEN /\ stage' = "DROPPED"
                   /\ UNCHANGED <<log, engineerTable, projectTable, processed_count,
                                  engineer_count, project_count, writes>>
              ELSE /\ log' = [log EXCEPT !.insert = @ + 1,
                                          !.target = InsertTable(data_type)]
                   /\ stage' = IF success THEN "WRITTEN" ELSE "WRITE_FAILED"
                   /\ engineerTable' =
                          IF taken /\ InsertTable(data_type) = "EngineerData"
                          THEN Append(engineerTable, data) ELSE engineerTable
                   /\ projectTable' =
                          IF taken /\ InsertTable(data_type) = "ProjectData"
                          THEN Append(projectTable, data) ELSE projectTable
                   /\ processed_count' = IF success THEN processed_count + 1
                                         ELSE processed_count
                   /\ engineer_count' = IF success /\ TypeIs(o, "engineer")
                                        THEN engineer_count + 1 ELSE engineer_count
                   /\ project_count' = IF success /\ ~TypeIs(o, "engineer")
                                       THEN project_count + 1 ELSE project_count
                   /\ writes' = IF success
                                THEN Append(writes, [by |-> inst, fingerprint |-> fingerprint,
                                                     checked_at |-> checked_at,
                                                     failed |-> q.failed])
                                ELSE writes
    /\ UNCHANGED <<run, pc, emails, i, other_count, skipped_count, fingerprint,
                   extracted, j, file_urls, excel_skills, q, att_log,
                   non_other_count, failed_open, query_failed, rerun, prev,
                   inst, parked, checked_at, classifyVars, fetchVars, nameVars>>

(***************************************************************************)
(* main, lines 814-822: the loop is over, the summary is printed.          *)
(***************************************************************************)
Summary ==
    /\ pc = "loop" /\ stage \in Finished /\ i = Len(emails)
    /\ pc' = "summary"
    /\ UNCHANGED <<run, emails, i, processed_count, engineer_count, project_count,
                   other_count, skipped_count, engineerTable, projectTable,
                   msgVars, histVars, concVars, classifyVars, fetchVars, nameVars>>

\* One run of main over any batch, with every response the services can give.
Next ==
    \/ /\ run = 0
       /\ \E batch \in Batches : MainStart(batch)
    \/ \E clientOK, engOK, projOK \in BOOLEAN : DedupCheck(clientOK, engOK, projOK)
    \/ /\ pc = "loop" /\ stage = "CLASSIFYING"
       /\ \E r \in ClassifyOutcomes[emails[i].body] : Classify(r)
    \/ \E uploadOK \in BOOLEAN, excel_text \in ExcelContents,
          excel_data \in SkillResponses : Attach(uploadOK, excel_text, excel_data)
    \/ \E outcome \in InsertOutcomes : Write(outcome)
    \/ Summary

Spec == Init /\ [][Next]_vars

(***************************************************************************)
(* Several runs of main, one after the other, against the same warehouse.  *)
(* The batches are built from three messages, two of them with the same    *)
(* fingerprint; every request is answered at its first attempt, and the    *)
(* spreadsheet of an attachment is unreadable.                             *)
(***************************************************************************)
RunMessages == { Msg("1", <<"s1">>, 1), Msg("2", <<"s1">>, 0), Msg("3", <<"s2">>, 0) }

RunBatches == UNION { [1..n -> RunMessages] : n \in 0..MaxBatch }

RunClassifyOutcomes ==
    [email_body \in Bodies |->
        { r \in ClassifyOutcomes[email_body] :
            /\ r.requests = 1
            /\ r.result # None => "engineerName" \notin DOMAIN r.result.o }]

NextRuns ==
    \/ \E batch \in RunBatches : MainStart(batch)
    \/ \E clientOK, engOK, projOK \in BOOLEAN : DedupCheck(clientOK, engOK, projOK)
    \/ /\ pc = "loop" /\ stage = "CLASSIFYING"
       /\ \E r \in RunClassifyOutcomes[emails[i].body] : Classify(r)
    \/ \E uploadOK \in BOOLEAN : Attach(uploadOK, None, None)
    \/ \E outcome \in InsertOutcomes : Write(outcome)
    \/ Summary

SpecRuns == Init /\ [][NextRuns]_vars

(***************************************************************************)
(* One call of classify_and_extract_with_gemini, request by request.       *)
(***************************************************************************)
ClassifyCall(email_body) ==
    /\ c_pc = "idle"
    /\ c_pc' = "running" /\ c_body' = email_body
    /\ c_m' = 1 /\ c_attempt' = 0 /\ c_requests' = 0
    /\ c_sleeps' = <<>> /\ c_result' = None /\ c_outcomes' = <<>>
    /\ UNCHANGED <<driverVars, fetchVars, nameVars>>

\* One iteration of the retry loop: the request, the handling of its
\* outcome, the sleep if any, and the step of the loops.
ClassifyAttempt(outcome) ==
    /\ c_pc = "running"
    /\ LET st == AttemptStep(c_attempt, outcome, c_body)
           pos == NextPosition(c_m, c_attempt, st.ctl)
       IN  /\ c_requests' = c_requests + 1
           /\ c_outcomes' = Append(c_outcomes, outcome)
           /\ c_sleeps' = c_sleeps \o st.sleep
           /\ IF st.ctl = "return"
              THEN /\ c_pc' = "returned" /\ c_result' = st.result
                   /\ UNCHANGED <<c_m, c_attempt>>
              ELSE /\ c_m' = pos.m /\ c_attempt' = pos.a
                   /\ c_result' = None
                   /\ c_pc' = IF pos.m > Len(model_names) THEN "returned" ELSE "running"
    /\ UNCHANGED <<c_body, driverVars, fetchVars, nameVars>>

NextClassify ==
    \/ \E email_body \in Bodies : ClassifyCall(email_body)
    \/ \E outcome \in AttemptOutcomes : ClassifyAttempt(outcome)

SpecClassify == Init /\ [][NextClassify]_vars

RateLimitOutcomes ==
    { ExcOutcome(<<"429", "Resource exhausted">>), ExcOutcome(<<"Quota", "exceeded">>) }

OtherErrorOutcomes == { ExcOutcome(<<"500", "Internal error">>) }

EmptyArrayOutcome == JsonOutcome(JArr(<<>>))

(***************************************************************************)
(* C6: when every request of a call fails with a rate-limit/quota error,   *)
(* the call makes exactly 3 requests, sleeps 5, 10 and 20 seconds in that  *)
(* order and returns null.                                                 *)
(***************************************************************************)
C6_RateLimitedCall ==
    (/\ c_pc \in {"running", "returned"}
     /\ \A k \in 1..Len(c_outcomes) : c_outcomes[k] \in RateLimitOutcomes)
    => /\ c_requests <= 3
       /\ c_sleeps = SubSeq(<<5, 10, 20>>, 1, c_requests)
       /\ c_pc = "returned" <=> c_requests = 3
       /\ c_pc = "returned" => c_result = None

C6_Witness ==
    /\ c_pc = "returned" /\ c_requests = 3 /\ c_sleeps = <<5, 10, 20>>
    /\ \A k \in 1..3 : c_outcomes[k] \in RateLimitOutcomes

(***************************************************************************)
(* C7: after a response that parses to an empty JSON array no further      *)
(* request is made to the same model (with the single configured model the *)
(* call makes no more requests and returns null); of a non-empty array the *)
(* first element is the result.                                            *)
(***************************************************************************)
C7_EmptyArrayEndsModel ==
    /\ \A k \in 1..Len(c_outcomes) :
          c_outcomes[k] = EmptyArrayOutcome
              => k = Len(c_outcomes) /\ c_pc = "returned" /\ c_result = None
    /\ \A k \in 1..Len(c_outcomes) :
          LET v == c_outcomes[k].value
          IN  (c_outcomes[k].kind = "json" /\ v.k = "arr" /\ Len(v.a) > 0
                  /\ v.a[1].k = "obj")
              => /\ k = Len(c_outcomes) /\ c_pc = "returned"
                 /\ c_result.k = "obj"
                 /\ c_result.o["type"] = v.a[1].o["type"]

(***************************************************************************)
(* C8: a request that fails with a JSON decode error or with an error that *)
(* is not rate-limit/quota is the last one of the call, with no sleep      *)
(* after it, and the call returns null; a request other than the first is  *)
(* made only after a rate-limit/quota failure, and so is every sleep.      *)
(***************************************************************************)
C8_RetryOnlyAfterRateLimit ==
    /\ \A k \in 1..Len(c_outcomes) :
          c_outcomes[k] \in {JsonErrorOutcome} \cup OtherErrorOutcomes
              => k = Len(c_outcomes) /\ c_pc = "returned" /\ c_result = None
    /\ \A k \in 2..Len(c_outcomes) : c_outcomes[k - 1] \in RateLimitOutcomes
    /\ Len(c_sleeps) = Cardinality({ k \in 1..Len(c_outcomes) :
                                       c_outcomes[k] \in RateLimitOutcomes })

(***************************************************************************)
(* Properties of the driver.                                               *)
(***************************************************************************)
IsEP(x) == x # None /\ (TypeIs(x.o, "engineer") \/ TypeIs(x.o, "project"))

RowCount(fp) ==
    Cardinality({ r \in 1..Len(engineerTable) : engineerTable[r].fingerprint = fp })
        + Cardinality({ r \in 1..Len(projectTable) : projectTable[r].fingerprint = fp })

IsPrefix(a, b) == Len(a) <= Len(b) /\ SubSeq(b, 1, Len(a)) = a

(***************************************************************************)
(* C1: a message whose fingerprint fingerprint_exists finds in the         *)
(* engineer table or in the project table is skipped as a duplicate: the   *)
(* duplicate-skip counter goes up by one and no inference request, no      *)
(* upload and no insert is made for it.                                    *)
(***************************************************************************)
C1_FoundThenSkipped ==
    /\ [](q.found # "none" => stage = "SKIPPED_DUPLICATE")
    /\ [](stage = "SKIPPED_DUPLICATE"
            => /\ log = NoCalls /\ att_log = <<>> /\ bq_data = None
               /\ extracted = None /\ file_urls = <<>>)
    /\ [][(i' = i + 1 /\ ~q'.failed /\ fingerprint' \in WarehouseFingerprints)
            => stage' = "SKIPPED_DUPLICATE"]_vars
    /\ [][(i' = i + 1 /\ stage' = "SKIPPED_DUPLICATE")
            => /\ skipped_count' = skipped_count + 1
               /\ UNCHANGED <<engineerTable, projectTable, processed_count,
                              other_count>>]_vars
    /\ [][(stage = "SKIPPED_DUPLICATE" /\ i' = i)
            => UNCHANGED <<log, att_log, engineerTable, projectTable>>]_vars

C1_Witness ==
    /\ stage = "SKIPPED_DUPLICATE" /\ q.found = "ProjectData" /\ skipped_count = 1

(***************************************************************************)
(* C2 as claimed: whatever happens in the existence checks, no fingerprint *)
(* occurs in more than one row of the two tables taken together.           *)
(***************************************************************************)
C2_UniqueAlways == \A fp \in WarehouseFingerprints : RowCount(fp) <= 1

(***************************************************************************)
(* C2: a fingerprint occurs in more than one row of the two tables taken   *)
(* together only if an existence check for a message with that fingerprint *)
(* failed; rows are only ever appended, never changed or removed.          *)
(***************************************************************************)
C2_UniqueUnlessFailedOpen ==
    /\ [](\A fp \in WarehouseFingerprints : RowCount(fp) > 1 => fp \in failed_open)
    /\ [][/\ IsPrefix(engineerTable, engineerTable')
          /\ IsPrefix(projectTable, projectTable')]_vars

C2_Witness ==
    /\ run = 2 /\ pc = "summary" /\ failed_open = {}
    /\ Len(emails) = 2 /\ skipped_count = 2 /\ prev.skipped = 1
    /\ Len(engineerTable) + Len(projectTable) = 1

(***************************************************************************)
(* C3 as claimed: a second run over the same batch adds no row and skips   *)
(* as many messages as the first run classified engineer or project.       *)
(***************************************************************************)
RowsAdded == Len(engineerTable) + Len(projectTable) - prev.eng_rows - prev.proj_rows

C3_SecondRunSkipsNonOther ==
    (pc = "summary" /\ rerun) => RowsAdded = 0 /\ skipped_count = prev.non_other

(***************************************************************************)
(* C3: in a second run over the same batch in which no existence check     *)
(* fails, no row is added for a fingerprint the warehouse held after the   *)
(* first run, and every message with such a fingerprint is skipped as a    *)
(* duplicate; the duplicate-skip count equals the first run's number of    *)
(* engineer/project classifications when the first run inserted each of    *)
(* them, skipped nothing, had no failed check, and the fingerprints of the *)
(* batch are distinct.                                                     *)
(***************************************************************************)
FingerprintOf(m) ==
    generate_mail_fingerprint(m.sender_email, m.subject, m.body, m.sent_at)

KnownMessages == { k \in 1..Len(emails) : FingerprintOf(emails[k]) \in prev.fps }

DistinctFingerprints ==
    \A k, l \in 1..Len(emails) :
        FingerprintOf(emails[k]) = FingerprintOf(emails[l]) => k = l

C3_SecondRunSkipsPersisted ==
    (rerun /\ ~query_failed)
    => /\ \A r \in (prev.eng_rows + 1)..Len(engineerTable) :
              engineerTable[r].fingerprint \notin prev.fps
       /\ \A r \in (prev.proj_rows + 1)..Len(projectTable) :
              projectTable[r].fingerprint \notin prev.fps
       /\ pc = "summary" => skipped_count >= Cardinality(KnownMessages)
       /\ (/\ pc = "summary" /\ DistinctFingerprints
           /\ prev.written = prev.non_other /\ prev.skipped = 0 /\ ~prev.query_failed)
          => skipped_count = prev.non_other

C3_Witness ==
    /\ rerun /\ ~query_failed /\ pc = "summary" /\ DistinctFingerprints
    /\ prev.written = prev.non_other /\ prev.skipped = 0 /\ ~prev.query_failed
    /\ Len(emails) = 2 /\ prev.non_other = 1 /\ skipped_count = 1
    /\ processed_count = 1

(***************************************************************************)
(* C4: whatever the services answer while a message is processed, the      *)
(* loop goes on to the next message and the run reaches the summary: main  *)
(* never ends in the middle of the batch.                                  *)
(***************************************************************************)
C4_NeverAborts == pc # "aborted"

(***************************************************************************)
(* C5: an iteration of the loop ends in one of the five terminal states,   *)
(* and a message whose result is not 'other' and whose attachments have    *)
(* been handled gets exactly one insert attempt, whatever its type field.  *)
(***************************************************************************)
C5_FiveTerminalStates ==
    stage \in Finished
    => /\ stage \in {"SKIPPED_DUPLICATE", "SKIPPED_OTHER", "CLASSIFY_FAILED",
                     "WRITE_FAILED", "WRITTEN"}
       /\ (extracted # None /\ ~TypeIs(extracted.o, "other")) => log.insert = 1

(***************************************************************************)
(* C9: when the warehouse client cannot be built or the queries raise,     *)
(* the message is not counted as a duplicate and goes on to                *)
(* classification; a table whose query raises never makes the message a    *)
(* duplicate.                                                              *)
(***************************************************************************)
C9_DedupFailsOpen ==
    /\ [][\A clientOK, engOK, projOK \in BOOLEAN :
            DedupCheck(clientOK, engOK, projOK)
            => /\ (~clientOK \/ (~engOK /\ ~projOK))
                    => /\ stage' = "CLASSIFYING" /\ q'.found = "none"
                       /\ skipped_count' = skipped_count
               /\ (clientOK /\ ~engOK) => q'.found # "EngineerData"
               /\ (clientOK /\ ~projOK) => q'.found # "ProjectData"]_vars
    /\ []((q.failed /\ q.found = "none" /\ stage # "NONE")
            => stage # "SKIPPED_DUPLICATE")

C9_Witness ==
    /\ q.failed /\ q.found = "none" /\ stage = "CLASSIFYING"
    /\ fingerprint \in WarehouseFingerprints

(***************************************************************************)
(* C10: for a message classified engineer or project, a failed upload, an  *)
(* unreadable spreadsheet or a failed skill request at one attachment      *)
(* leaves the loop on its way to the next attachment; the insert is then   *)
(* attempted, and the row's fileURL is the ', '-joined URLs of the uploads *)
(* that succeeded, in attachment order ('' when there is none).            *)
(***************************************************************************)
RECURSIVE JoinedSuccesses(_, _)
JoinedSuccesses(uploads, acc) ==
    IF uploads = <<>> THEN acc
    ELSE LET u == Head(uploads)
         IN  JoinedSuccesses(Tail(uploads),
                 IF u = None THEN acc
                 ELSE IF acc = <<>> THEN u.s ELSE acc \o <<", ">> \o u.s)

C10_AttachmentFailuresAbsorbed ==
    /\ []((stage \in {"WRITTEN", "WRITE_FAILED"} /\ IsEP(extracted))
            => /\ Len(att_log) = Len(emails[i].attachments)
               /\ log.insert = 1
               /\ bq_data.fileURL = JoinedSuccesses(att_log, <<>>))
    /\ [][\A uploadOK \in BOOLEAN, excel_text \in ExcelContents :
            (/\ stage = "ATTACHING" /\ IsEP(extracted)
             /\ ~FinalFilename(emails[i].attachments[j + 1], extracted.o).raises
             /\ Attach(uploadOK, excel_text, None))
            => /\ pc' = "loop" /\ j' = j + 1
               /\ stage' \in {"ATTACHING", "ATTACHMENTS_RESOLVED"}
               /\ Len(file_urls') = Len(file_urls) + (IF uploadOK THEN 1 ELSE 0)]_vars
    /\ [][(stage = "ATTACHMENTS_RESOLVED" /\ IsEP(extracted))
            => stage' \in {"WRITTEN", "WRITE_FAILED"} /\ log'.insert = 1]_vars

C10_Witness ==
    /\ stage = "WRITTEN" /\ IsEP(extracted)
    /\ Len(att_log) >= 2 /\ att_log[1] = None /\ att_log[2] # None
    /\ Len(file_urls) = Len(att_log) - 1

(***************************************************************************)
(* C11: at the end of a run the counters the driver keeps for the terminal *)
(* states of its messages (written, skipped as duplicate, skipped as       *)
(* other, classification failed, insert rejected) add up to the number of  *)
(* fetched messages.  The driver keeps processed_count, skipped_count and  *)
(* other_count and no other per-message counter.                           *)
(***************************************************************************)
C11_CountersCoverBatch ==
    pc = "summary" => processed_count + skipped_count + other_count = Len(emails)

(***************************************************************************)
(* C12: for a message at most one insert call is made, and a call adds at  *)
(* most one row; the call goes to the engineer table exactly when the      *)
(* classified type is engineer and to the project table exactly when it is *)
(* project; a row added to a table is the row built for the message; no    *)
(* insert is made for a message classified other; after a rejected or      *)
(* failed insert no further insert is made for the message.                *)
(***************************************************************************)
C12_OneInsertRoutedByType ==
    /\ [](log.insert <= 1)
    /\ [](log.insert = 1
            => /\ extracted # None
               /\ log.target = "EngineerData" <=> TypeIs(extracted.o, "engineer")
               /\ log.target = "ProjectData" <=> TypeIs(extracted.o, "project"))
    /\ []((extracted # None /\ TypeIs(extracted.o, "other"))
            => log.insert = 0 /\ bq_data = None /\ stage = "SKIPPED_OTHER")
    /\ [][/\ Len(engineerTable') + Len(projectTable')
                <= Len(engineerTable) + Len(projectTable) + 1
          /\ engineerTable' # engineerTable
                => /\ engineerTable' = Append(engineerTable, bq_data')
                   /\ TypeIs(extracted.o, "engineer")
                   /\ log'.insert = log.insert + 1 /\ stage' = "WRITTEN"
          /\ projectTable' # projectTable
                => /\ projectTable' = Append(projectTable, bq_data')
                   /\ TypeIs(extracted.o, "project")
                   /\ log'.insert = log.insert + 1 /\ stage' = "WRITTEN"]_vars
    /\ [][stage = "WRITE_FAILED"
            => /\ UNCHANGED <<engineerTable, projectTable>>
               /\ log' = log \/ (i' = i + 1 /\ log' = NoCalls)]_vars

C12_Witness ==
    /\ stage = "WRITE_FAILED" /\ log.insert = 1 /\ log.target = "EngineerData"
    /\ TypeIs(extracted.o, "engineer") /\ i = 2 /\ Len(projectTable) = 1

(***************************************************************************)
(* One run of main over messages with long bodies: a base message and      *)
(* messages that differ from it in the transport id, the display name of   *)
(* the sender, the attachments and the body after its first 500            *)
(* characters, or in exactly one of sender address, subject, body within   *)
(* its first 500 characters, and send time.                                *)
(***************************************************************************)
\* The string of n characters c.
Rep(c, n) == [k \in 1..n |-> c]

Body501a == Rep("x", BodyPrefixLen) \o <<"a">>
Body501b == Rep("x", BodyPrefixLen) \o <<"b">>
Body500 == Rep("x", BodyPrefixLen)
Body500y == Rep("x", BodyPrefixLen - 1) \o <<"y">>

FpMsg(id, sender_name, sender_email, subject, body, sent_at, nattach) ==
    [email_id |-> id, sender_name |-> sender_name, sender_email |-> sender_email,
     subject |-> subject, body |-> body, sent_at |-> sent_at,
     attachments |-> SubSeq(AttachmentPool, 1, nattach)]

FpT1 == <<"2026-11-06T07:11:00+00:00">>
FpT2 == <<"2026-11-06T07:12:00+00:00">>

FpMessages ==
    { FpMsg("1", <<"A">>, <<"a@x">>, <<"s1">>, Body501a, FpT1, 0),
      FpMsg("2", <<"B">>, <<"a@x">>, <<"s1">>, Body501b, FpT1, 1),
      FpMsg("3", <<"A">>, <<"a@x">>, <<"s1">>, Body500, FpT1, 0),
      FpMsg("4", <<"A">>, <<"b@x">>, <<"s1">>, Body501a, FpT1, 0),
      FpMsg("5", <<"A">>, <<"a@x">>, <<"s2">>, Body501a, FpT1, 0),
      FpMsg("6", <<"A">>, <<"a@x">>, <<"s1">>, Body500y, FpT1, 0),
      FpMsg("7", <<"A">>, <<"a@x">>, <<"s1">>, Body501a, FpT2, 0),
      FpMsg("8", <<"A">>, <<"a@x">>, <<"s1">>, Body501a, <<>>, 0) }

\* Every ordered pair of these messages.
FpBatches == [1..2 -> FpMessages]

FpBodies == { m.body : m \in FpMessages }

FpAttemptOutcomes ==
    { JsonOutcome(JObj([type |-> Str("engineer")])),
      JsonOutcome(JObj([type |-> Str("project"), price |-> JStr(<<"8", "0">>)])),
      JsonOutcome(JObj([type |-> Str("other")])),
      JsonErrorOutcome }

FpClassifyOutcomes ==
    [email_body \in FpBodies |->
        { classify_and_extract_with_gemini(<<out, out, out>>, email_body) :
            out \in FpAttemptOutcomes }]

NextFp ==
    \/ /\ run = 0
       /\ \E batch \in FpBatches : MainStart(batch)
    \/ \E clientOK, engOK, projOK \in BOOLEAN : DedupCheck(clientOK, engOK, projOK)
    \/ /\ pc = "loop" /\ stage = "CLASSIFYING"
       /\ \E r \in FpClassifyOutcomes[emails[i].body] : Classify(r)
    \/ \E uploadOK \in BOOLEAN : Attach(uploadOK, None, None)
    \/ \E outcome \in InsertOutcomes : Write(outcome)
    \/ Summary

SpecFp == Init /\ [][NextFp]_vars

\* body[:500]
First500(body) == SubSeq(body, 1, IF Len(body) < 500 THEN Len(body) ELSE 500)

SameFour(m, n) ==
    /\ m.sender_email = n.sender_email /\ m.subject = n.subject
    /\ First500(m.body) = First500(n.body) /\ m.sent_at = n.sent_at

(***************************************************************************)
(* C17: two messages that agree on sender address, subject, the first 500  *)
(* characters of the body and the send time get the same fingerprint,      *)
(* whatever their transport ids, display names, attachments and the rest   *)
(* of their bodies; the existence check of the driver decides by the       *)
(* fingerprint alone: with no failed query a message is skipped exactly    *)
(* when its fingerprint is in the warehouse, so the second of two such     *)
(* messages is skipped once the first is stored.                           *)
(***************************************************************************)
C17_FingerprintOfFourFields ==
    /\ [](\A k, l \in 1..Len(emails) :
            SameFour(emails[k], emails[l])
                => FingerprintOf(emails[k]) = FingerprintOf(emails[l]))
    /\ []((i >= 1 /\ stage # "NONE") => fingerprint = FingerprintOf(emails[i]))
    /\ [][(i' = i + 1 /\ ~q'.failed)
            => (stage' = "SKIPPED_DUPLICATE" <=> fingerprint' \in WarehouseFingerprints)]_vars
    /\ [][(/\ i = 1 /\ stage = "WRITTEN" /\ i' = 2 /\ ~q'.failed
           /\ SameFour(emails[1], emails[2]))
            => stage' = "SKIPPED_DUPLICATE"]_vars

C17_Witness ==
    /\ i = 2 /\ stage = "SKIPPED_DUPLICATE" /\ ~q.failed
    /\ Len(engineerTable) = 1
    /\ SameFour(emails[1], emails[2])
    /\ emails[1].email_id # emails[2].email_id
    /\ emails[1].sender_name # emails[2].sender_name
    /\ emails[1].attachments # emails[2].attachments
    /\ emails[1].body # emails[2].body

DifferingInputs(m, n) ==
    { f \in {"sender_email", "subject", "body", "sent_at"} : m[f] # n[f] }

DifferingKeyParts(m, n) ==
    { f \in {"sender_email", "subject", "sent_at"} : m[f] # n[f] }
        \cup (IF First500(m.body) # First500(n.body) THEN {"body"} ELSE {})

(***************************************************************************)
(* C18 as claimed: when the second message of a batch differs from the     *)
(* first in exactly one of sender, subject, body and send time, the        *)
(* fingerprint computed for it differs from the fingerprint of the first.  *)
(***************************************************************************)
C18_AnyInputChange ==
    (i = 2 /\ Cardinality(DifferingInputs(emails[1], emails[2])) = 1)
    => fingerprint # FingerprintOf(emails[1])

(***************************************************************************)
(* C18: when the second message of a batch differs from the first in       *)
(* exactly one of sender, subject, the first 500 characters of the body    *)
(* and send time, the fingerprint computed for it differs from the         *)
(* fingerprint of the first, and with no failed query it is not skipped as *)
(* a duplicate of the first; when the bodies differ only after their first *)
(* 500 characters and the rest agrees, the fingerprints are equal.         *)
(***************************************************************************)
C18_KeyPartChange ==
    /\ []((i = 2 /\ Cardinality(DifferingKeyParts(emails[1], emails[2])) = 1)
            => fingerprint # FingerprintOf(emails[1]))
    /\ [][(/\ i = 1 /\ stage = "WRITTEN" /\ i' = 2 /\ ~q'.failed
           /\ Cardinality(DifferingKeyParts(emails[1], emails[2])) = 1)
            => stage' = "CLASSIFYING"]_vars
    /\ []((/\ i = 2 /\ DifferingInputs(emails[1], emails[2]) = {"body"}
           /\ DifferingKeyParts(emails[1], emails[2]) = {})
            => fingerprint = FingerprintOf(emails[1]))

C18_Witness ==
    /\ i = 2 /\ DifferingInputs(emails[1], emails[2]) = {"sent_at"}
    /\ Len(projectTable) = 1 /\ ~q.failed /\ stage = "CLASSIFYING"
    /\ fingerprint # FingerprintOf(emails[1])

(***************************************************************************)
(* Calls of classify_and_extract_with_gemini whose response is an engineer *)
(* or a project object with one numeric field set to a value the           *)
(* inference service may put there.                                        *)
(***************************************************************************)
NumericValues ==
    { JNum(80), JNum(0), JNum(-3), JFloat(80, 0), JFloat(5, 5),
      JStr(<<"8", "0">>), JStr(<<"8", "0", "0", ",", "0", "0", "0">>),
      JStr(<<" ", "5", " ">>), JStr(<<"-", "3">>), JStr(<<"8", "0", "man">>),
      JStr(<<>>), JNull, JTrue, JFalse, JArr(<<>>), JArr(<<JNum(5)>>) }

NumericFieldsOf(type) ==
    IF type = "project" THEN {"price"}
    ELSE {"monthlyRate", "yearsOfExperience", "age"}

NumericResponses ==
    { ("type" :> Str(type)) @@ (field :> v) :
        type \in {"engineer", "project"},
        field \in {"price", "monthlyRate", "yearsOfExperience", "age"},
        v \in NumericValues }
        \cup { [type |-> Str("engineer")], [type |-> Str("project")] }

NumericOutcomes ==
    { JsonOutcome(JObj(o)) : o \in NumericResponses }
        \cup { JsonOutcome(JArr(<<JObj(o)>>)) :
                 o \in { x \in NumericResponses : DOMAIN x = {"type"} } }

NextCoerce ==
    \/ \E email_body \in Bodies : ClassifyCall(email_body)
    \/ \E outcome \in NumericOutcomes \cup RateLimitOutcomes : ClassifyAttempt(outcome)

SpecCoerce == Init /\ [][NextCoerce]_vars

\* The object the last response carried.
Answered ==
    LET v == c_outcomes[Len(c_outcomes)].value
    IN  IF v.k = "arr" THEN v.a[1].o ELSE v.o

ReturnedOfType(type) ==
    /\ c_pc = "returned" /\ c_result # None /\ TypeIs(c_result.o, type)

\* The value with commas stripped and cast to integer, 0 when the cast
\* fails.
StrippedInt(v) ==
    CASE v.k = "num" -> v.n
      [] v.k = "str" -> LET r == ParseInt(Remove(v.s, {","}))
                        IN  IF r.ok THEN r.val ELSE 0
      [] OTHER -> 0

(***************************************************************************)
(* C19: in a result of type engineer or project that the call returns,     *)
(* every numeric field of that type the response carried as a JSON integer *)
(* or a JSON string holds an integer: the value returned with its commas   *)
(* stripped and cast to integer, 0 when the cast fails.                    *)
(***************************************************************************)
CarriedFields(type) ==
    { field \in NumericFieldsOf(type) \cap DOMAIN Answered :
        Answered[field].k \in {"num", "str"} }

C19_NumericFieldsAreIntegers ==
    \A type \in {"engineer", "project"} :
        ReturnedOfType(type)
        => \A field \in CarriedFields(type) :
              /\ c_result.o[field].k = "num"
              /\ c_result.o[field].n = StrippedInt(Answered[field])

(***************************************************************************)
(* C20: in an engineer result that the call returns, yearsOfExperience,    *)
(* when the response carried it as a JSON integer or a JSON string, is an  *)
(* integer that is not negative.                                           *)
(***************************************************************************)
C20_YearsNonNegativeInteger ==
    (ReturnedOfType("engineer") /\ "yearsOfExperience" \in CarriedFields("engineer"))
    => /\ c_result.o["yearsOfExperience"].k = "num"
       /\ c_result.o["yearsOfExperience"].n >= 0

(***************************************************************************)
(* fetch_recent_emails (lines 166-368) against an IMAP mailbox.            *)
(*                                                                         *)
(* The message ids SEARCH ALL returns are the sequence numbers 1..n of the *)
(* mailbox, oldest first.  The mailbox is selected with mail.select        *)
(* ('INBOX'), that is read-write, and a message is retrieved with          *)
(* mail.fetch(id, '(RFC822)'): by RFC 3501 (6.4.5) RFC822 is BODY[], which *)
(* sets the \Seen flag of the message, and CLOSE (6.4.2) removes the       *)
(* messages flagged \Deleted from a mailbox selected read-write.           *)
(***************************************************************************)
MaxMail == 3
MaxLimit == 3

Mailboxes ==
    UNION { [1..n -> [seen : BOOLEAN, deleted : BOOLEAN]] : n \in 0..MaxMail }

RECURSIVE Reverse(_)
Reverse(s) == IF s = <<>> THEN <<>> ELSE Reverse(Tail(s)) \o <<Head(s)>>

RECURSIVE UpTo(_)
\* message_ids[0].split(): the ids 1..n
UpTo(n) == IF n = 0 THEN <<>> ELSE UpTo(n - 1) \o <<n>>

\* Lines 180-181: email_ids[-limit:] if len(email_ids) > limit else
\* email_ids.  The slice [-limit:] starts limit places before the end,
\* except that -0 is 0 and [0:] is the whole list.
SelectIds(email_ids, limit) ==
    IF Len(email_ids) > limit
    THEN IF limit = 0 THEN email_ids
         ELSE SubSeq(email_ids, Len(email_ids) - limit + 1, Len(email_ids))
    ELSE email_ids

RECURSIVE Expunge(_)
\* CLOSE on a mailbox selected read-write.
Expunge(box) ==
    IF box = <<>> THEN <<>>
    ELSE IF Head(box).deleted THEN Expunge(Tail(box))
         ELSE <<Head(box)>> \o Expunge(Tail(box))

StartOutcomes == {"connect_raises", "login_raises", "search_raises", "search_no", "ok"}
MessageOutcomes == {"ok", "status_no", "fetch_raises", "assemble_raises"}

FetchInit ==
    /\ mbox \in Mailboxes /\ mbox0 = mbox /\ conn = "none" /\ opens = 0
    /\ f_pc = "idle" /\ f_limit = 0 /\ f_ids = <<>> /\ f_emails = <<>>
    /\ f_result = None /\ f_log = <<>>

InitFetch == DriverInit /\ ClassifyIdle /\ FetchInit /\ NameIdle

\* Lines 168-183: connect, login, select, search, and the choice of the
\* ids.  An exception raised by any of them is caught at line 366, which
\* returns [] without closing anything.
FetchStart(limit, outcome, closeOK) ==
    /\ f_pc = "idle"
    /\ f_limit' = limit /\ mbox0' = mbox /\ f_emails' = <<>>
    /\ opens' = IF outcome = "connect_raises" THEN opens ELSE opens + 1
    /\ CASE outcome = "connect_raises" ->
              /\ conn' = conn /\ mbox' = mbox /\ f_ids' = <<>>
              /\ f_pc' = "returned" /\ f_result' = <<>>
              /\ f_log' = <<[id |-> 0, outcome |-> outcome]>>
         [] outcome = "login_raises" ->
              /\ conn' = "open" /\ mbox' = mbox /\ f_ids' = <<>>
              /\ f_pc' = "returned" /\ f_result' = <<>>
              /\ f_log' = <<[id |-> 0, outcome |-> outcome]>>
         [] outcome = "search_raises" ->
              /\ conn' = "selected" /\ mbox' = mbox /\ f_ids' = <<>>
              /\ f_pc' = "returned" /\ f_result' = <<>>
              /\ f_log' = <<[id |-> 0, outcome |-> outcome]>>
         [] outcome = "search_no" \/ (outcome = "ok" /\ mbox = <<>>) ->
              \* lines 175-178
              /\ f_ids' = <<>> /\ f_pc' = "returned" /\ f_result' = <<>>
              /\ IF closeOK
                 THEN /\ conn' = "loggedout" /\ mbox' = Expunge(mbox)
                      /\ f_log' = <<>>
                 ELSE /\ conn' = "selected" /\ mbox' = mbox
                      /\ f_log' = <<[id |-> 0, outcome |-> "close_raises"]>>
         [] OTHER ->
              /\ conn' = "selected" /\ mbox' = mbox
              /\ f_ids' = Reverse(SelectIds(UpTo(Len(mbox)), limit))
              /\ f_pc' = "fetching" /\ f_result' = None /\ f_log' = <<>>
    /\ UNCHANGED <<driverVars, classifyVars, nameVars>>

\* Lines 185-359: one iteration of the loop over reversed(email_ids).
FetchMessage(outcome) ==
    /\ f_pc = "fetching" /\ f_ids # <<>>
    /\ LET email_id == Head(f_ids)
       IN  /\ f_log' = Append(f_log, [id |-> email_id, outcome |-> outcome])
           /\ mbox' = IF outcome \in {"ok", "assemble_raises"}
                      THEN [mbox EXCEPT ![email_id].seen = TRUE] ELSE mbox
           /\ CASE outcome = "ok" ->
                     /\ f_emails' = Append(f_emails, [email_id |-> email_id])
                     /\ f_ids' = Tail(f_ids)
                     /\ UNCHANGED <<f_pc, f_result>>
                [] outcome = "status_no" ->
                     /\ f_ids' = Tail(f_ids)
                     /\ UNCHANGED <<f_emails, f_pc, f_result>>
                [] OTHER ->
                     \* the exception leaves the loop for line 366
                     /\ f_pc' = "returned" /\ f_result' = <<>>
                     /\ UNCHANGED <<f_ids, f_emails>>
    /\ UNCHANGED <<mbox0, conn, opens, f_limit, driverVars, classifyVars, nameVars>>

\* Lines 361-364: close, logout, return emails.
FetchEnd(closeOK) ==
    /\ f_pc = "fetching" /\ f_ids = <<>>
    /\ f_pc' = "returned"
    /\ IF closeOK
       THEN /\ conn' = "loggedout" /\ mbox' = Expunge(mbox)
            /\ f_result' = f_emails /\ f_log' = f_log
       ELSE /\ conn' = conn /\ mbox' = mbox /\ f_result' = <<>>
            /\ f_log' = Append(f_log, [id |-> 0, outcome |-> "close_raises"])
    /\ UNCHANGED <<mbox0, opens, f_limit, f_ids, f_emails, driverVars, classifyVars,
                   nameVars>>

NextFetch ==
    \/ \E limit \in 0..MaxLimit, outcome \in StartOutcomes, closeOK \in BOOLEAN :
          FetchStart(limit, outcome, closeOK)
    \/ \E outcome \in MessageOutcomes : FetchMessage(outcome)
    \/ \E closeOK \in BOOLEAN : FetchEnd(closeOK)

SpecFetch == InitFetch /\ [][NextFetch]_vars

SelectedIds == Reverse(SelectIds(UpTo(Len(mbox0)), f_limit))

RECURSIVE IdsOf(_)
IdsOf(es) == IF es = <<>> THEN <<>> ELSE <<Head(es).email_id>> \o IdsOf(Tail(es))

FailedIds == { f_log[k].id : k \in { l \in 1..Len(f_log) : f_log[l].outcome # "ok" } }

RECURSIVE Without(_, _)
Without(ids, drop) ==
    IF ids = <<>> THEN <<>>
    ELSE IF Head(ids) \in drop THEN Without(Tail(ids), drop)
         ELSE <<Head(ids)>> \o Without(Tail(ids), drop)

(***************************************************************************)
(* C13: when the only failures of a fetch are failures to retrieve single  *)
(* messages (a non-OK status, or an exception raised by the retrieval),    *)
(* the fetch returns every selected message but those, in order.           *)
(***************************************************************************)
C13_OnlyFailedMessageSkipped ==
    (/\ f_pc = "returned" /\ f_log # <<>>
     /\ \A k \in 1..Len(f_log) :
           f_log[k].outcome \in {"ok", "status_no", "fetch_raises", "assemble_raises"})
    => IdsOf(f_result) = Without(SelectedIds, FailedIds)

(***************************************************************************)
(* C14: the fetch returns at most limit messages, they are among the last  *)
(* limit ids of the search result, most recent first, and an empty mailbox *)
(* gives the empty sequence.                                               *)
(***************************************************************************)
C14_AtMostLimitMostRecentFirst ==
    f_pc = "returned"
    => /\ Len(f_result) <= f_limit
       /\ \A k \in 1..Len(f_result) : f_result[k].email_id > Len(mbox0) - f_limit
       /\ \A k \in 1..(Len(f_result) - 1) :
             f_result[k].email_id > f_result[k + 1].email_id
       /\ mbox0 = <<>> => f_result = <<>>

(***************************************************************************)
(* C15: at most one connection is opened, and when fetch_recent_emails     *)
(* has returned after opening it (close and logout themselves not having   *)
(* raised), the session has been closed and logged out.                    *)
(***************************************************************************)
C15_ClosedBeforeReturn ==
    /\ opens <= 1
    /\ (/\ f_pc = "returned" /\ opens > 0
        /\ \A k \in 1..Len(f_log) : f_log[k].outcome # "close_raises")
       => conn = "loggedout"

(***************************************************************************)
(* C16: the fetch leaves the mailbox as it found it: the same messages,    *)
(* each with the flags it had.                                             *)
(***************************************************************************)
C16_MailboxUnchanged == mbox = mbox0

(***************************************************************************)
(* The file name of one attachment, from the MIME part to the upload:      *)
(* fetch_recent_emails, lines 308-348, then main, lines 745-769.           *)
(*                                                                         *)
(* A file name is a sequence of tokens, "U+FFFD" standing for one          *)
(* replacement character and the last token for the extension.  A          *)
(* Content-Type is a sequence of tokens cut so that the substring tests of *)
(* lines 317-320 are token tests.                                          *)
(***************************************************************************)
MaxReplacement == 5

Timestamp == "20261106_071100"

\* Message.get_content_type() returns the type in lower case.
LowerType(t) == IF t = "macroEnabled" THEN "macroenabled" ELSE t

get_content_type(header) == [k \in 1..Len(header) |-> LowerType(header[k])]

Contains(s, t) == \E k \in 1..Len(s) : s[k] = t

\* str.count
Count(s, t) == Cardinality({ k \in 1..Len(s) : s[k] = t })

\* Lines 316-323: the extension of the temporary name.
TempExt(content_type) ==
    IF Contains(content_type, "sheet") \/ Contains(content_type, "excel")
    THEN IF Contains(content_type, "officedocument") THEN ".xlsx"
         ELSE IF Contains(content_type, "macroEnabled") THEN ".xlsm"
              ELSE ".xls"
    ELSE ".xlsx"

\* Lines 308-348 for one part with a file name: the attachment appended to
\* the message, None when the part is not kept.
AssembleAttachment(part) ==
    LET is_garbled == Count(part.filename, "U+FFFD") > 3
        content_type == get_content_type(part.content_type)
        decoded_filename == IF is_garbled
                            THEN <<"temp_", Timestamp, TempExt(content_type)>>
                            ELSE part.filename
    IN  IF \E e \in {".xlsx", ".xls", ".xlsm"} : EndsWithLower(decoded_filename, e)
        THEN [filename |-> decoded_filename, is_garbled |-> is_garbled]
        ELSE None

ContentTypeHeaders ==
    { <<"application/vnd.openxmlformats-", "officedocument", ".spread", "sheet", "ml.",
        "sheet">>,
      <<"application/vnd.ms-", "excel", ".", "sheet", ".", "macroEnabled", ".12">>,
      <<"application/vnd.ms-", "excel">>,
      <<"application/octet-stream">> }

PartNames ==
    { Rep("U+FFFD", n) \o <<e>> :
        n \in {0, 3, 4, MaxReplacement}, e \in {".xlsx", ".XLSX", ".xls", ".xlsm", ".pdf"} }

Parts == [filename : PartNames, content_type : ContentTypeHeaders]

NameResults ==
    { [type |-> Str("engineer"), engineerName |-> JStr(<<"(", "A.K", ")">>),
       nearestStation |-> JStr(<<"Shinjuku", "EKI">>)],
      [type |-> Str("engineer"), engineerName |-> Str("A.K"),
       nearestStation |-> JStr(<<>>)],
      [type |-> Str("engineer"), engineerName |-> Str("A.K")],
      [type |-> Str("engineer"), nearestStation |-> Str("Shinjuku")],
      [type |-> Str("engineer"), engineerName |-> JNull,
       nearestStation |-> Str("Shinjuku")],
      [type |-> Str("engineer")],
      [type |-> Str("project"), engineerName |-> Str("A.K"),
       nearestStation |-> Str("Shinjuku")],
      [type |-> Str("project")] }

\* fetch_recent_emails, lines 308-348, for one part.
AssemblePart(part) ==
    /\ n_pc = "idle"
    /\ n_pc' = "assembled" /\ n_part' = part
    /\ n_att' = AssembleAttachment(part)
    /\ UNCHANGED <<n_o, n_final, driverVars, classifyVars, fetchVars>>

\* main, lines 745-769, for the attachment and the result of its message.
ResolveName(o) ==
    /\ n_pc = "assembled" /\ n_att # None
    /\ n_pc' = "resolved" /\ n_o' = o
    /\ n_final' = FinalFilename(n_att, o)
    /\ UNCHANGED <<n_part, n_att, driverVars, classifyVars, fetchVars>>

NextName ==
    \/ \E part \in Parts : AssemblePart(part)
    \/ \E o \in NameResults : ResolveName(o)

SpecName == Init /\ [][NextName]_vars

OriginalExt == LowerTok(n_part.filename[Len(n_part.filename)])

NameOf(o) == Get(o, "engineerName", JStr(<<>>))
StationOf(o) == Get(o, "nearestStation", JStr(<<>>))

CleanName(o) == Strip(Remove(NameOf(o).s, Parens))
CleanStation(o) == Strip(Remove(StationOf(o).s, Parens \cup {"EKI"}))

(***************************************************************************)
(* C21: an attachment is garbled exactly when its decoded file name holds  *)
(* more than 3 replacement characters.  A garbled attachment of an         *)
(* engineer message is uploaded as <name>_<station><ext> when name and     *)
(* station are both non-empty and as <name><ext> when only the name is,    *)
(* <ext> being the extension of the original file name; in every other     *)
(* case a garbled attachment is uploaded as temp_<timestamp><ext>.         *)
(***************************************************************************)
C21_GarbledNameRecovery ==
    /\ (n_pc # "idle" /\ n_att # None)
       => (n_att.is_garbled <=> Count(n_part.filename, "U+FFFD") > 3)
    /\ (n_pc # "idle" /\ Count(n_part.filename, "U+FFFD") > 3) => n_att # None
    /\ (n_pc = "resolved" /\ n_att.is_garbled)
       => IF TypeIs(n_o, "engineer") /\ Truthy(NameOf(n_o)) /\ Truthy(StationOf(n_o))
          THEN n_final.name = CleanName(n_o) \o <<"_">> \o CleanStation(n_o)
                                 \o <<OriginalExt>>
          ELSE IF TypeIs(n_o, "engineer") /\ Truthy(NameOf(n_o))
               THEN n_final.name = CleanName(n_o) \o <<OriginalExt>>
               ELSE /\ Len(n_final.name) = 3
                    /\ n_final.name[1] = "temp_" /\ n_final.name[2] = Timestamp

(***************************************************************************)
(* Two instances of main running at the same time against the same         *)
(* warehouse.  The driver variables hold the locals of the instance that   *)
(* is running, parked those of the other one; the operating system may     *)
(* switch between the two between any two steps.  The tables, and the      *)
(* record of the inserts made, are shared.  No existence check fails here, *)
(* and every classification request is answered at its first attempt.      *)
(***************************************************************************)
Locals ==
    [run |-> run, pc |-> pc, emails |-> emails, i |-> i,
     processed_count |-> processed_count, engineer_count |-> engineer_count,
     project_count |-> project_count, other_count |-> other_count,
     skipped_count |-> skipped_count,
     stage |-> stage, fingerprint |-> fingerprint, extracted |-> extracted, j |-> j,
     file_urls |-> file_urls, excel_skills |-> excel_skills, bq_data |-> bq_data,
     q |-> q, log |-> log, att_log |-> att_log, non_other_count |-> non_other_count,
     query_failed |-> query_failed, rerun |-> rerun, prev |-> prev,
     checked_at |-> checked_at]

Ended == {"summary", "returned", "aborted"}

\* The running instance is suspended and the other one, which has not
\* ended, runs.
Switch ==
    /\ parked.pc \notin Ended
    /\ inst' = 3 - inst
    /\ parked' = Locals
    /\ run' = parked.run /\ pc' = parked.pc /\ emails' = parked.emails /\ i' = parked.i
    /\ processed_count' = parked.processed_count
    /\ engineer_count' = parked.engineer_count
    /\ project_count' = parked.project_count
    /\ other_count' = parked.other_count /\ skipped_count' = parked.skipped_count
    /\ stage' = parked.stage /\ fingerprint' = parked.fingerprint
    /\ extracted' = parked.extracted /\ j' = parked.j
    /\ file_urls' = parked.file_urls /\ excel_skills' = parked.excel_skills
    /\ bq_data' = parked.bq_data /\ q' = parked.q /\ log' = parked.log
    /\ att_log' = parked.att_log /\ non_other_count' = parked.non_other_count
    /\ query_failed' = parked.query_failed /\ rerun' = parked.rerun
    /\ prev' = parked.prev /\ checked_at' = parked.checked_at
    /\ UNCHANGED <<engineerTable, projectTable, failed_open, writes, classifyVars,
                   fetchVars, nameVars>>

\* The two batches are built from two messages with different fingerprints.
TwoMessages == { Msg("1", <<"s1">>, 1), Msg("3", <<"s2">>, 0) }

TwoBatches == [1..1 -> TwoMessages] \cup [1..2 -> TwoMessages]

\* The classification answers at the first request with a type the driver
\* knows.
TwoClassifyOutcomes ==
    [email_body \in Bodies |->
        { r \in RunClassifyOutcomes[email_body] :
            /\ r.result # None
            /\ \E t \in {"engineer", "project", "other"} : TypeIs(r.result.o, t) }]

NextTwo ==
    \/ /\ run = 0
       /\ \E batch \in TwoBatches : MainStart(batch)
    \/ DedupCheck(TRUE, TRUE, TRUE)
    \/ /\ pc = "loop" /\ stage = "CLASSIFYING"
       /\ \E r \in TwoClassifyOutcomes[emails[i].body] : Classify(r)
    \/ \E uploadOK \in BOOLEAN : Attach(uploadOK, None, None)
    \/ \E outcome \in InsertOutcomes : Write(outcome)
    \/ Summary
    \/ Switch

SpecTwo == Init /\ [][NextTwo]_vars

\* Rows a and b of the record, a before b, carry the same fingerprint, and
\* the existence check before b did not fail.
CleanDuplicate(a, b) ==
    /\ a < b
    /\ writes[a].fingerprint = writes[b].fingerprint
    /\ ~writes[b].failed

(***************************************************************************)
(* C22: when a row is inserted whose fingerprint is already in the         *)
(* warehouse although the existence check before the insert did not fail,  *)
(* the earlier row was inserted by the other instance, and after the check *)
(* of the later writer: both instances had completed their check before    *)
(* either inserted.  One instance alone never produces such a pair.        *)
(***************************************************************************)
C22_DuplicateOnlyByRace ==
    \A a, b \in 1..Len(writes) :
        CleanDuplicate(a, b)
            => /\ writes[a].by # writes[b].by
               /\ writes[b].checked_at < a
               /\ writes[a].checked_at < a

\* Both instances found the fingerprint absent, without a failed check,
\* before either inserted; both inserted, and the warehouse holds two rows
\* with that fingerprint.
C22_Witness ==
    \E a, b \in 1..Len(writes) :
        /\ CleanDuplicate(a, b) /\ ~writes[a].failed
        /\ writes[a].by # writes[b].by
        /\ writes[b].checked_at < a /\ writes[a].checked_at < a
        /\ Len(engineerTable) + Len(projectTable) = Len(writes)
        /\ Cardinality({ r \in 1..Len(engineerTable) :
                           engineerTable[r].fingerprint = writes[a].fingerprint })
             + Cardinality({ r \in 1..Len(projectTable) :
                           projectTable[r].fingerprint = writes[a].fingerprint }) = 2

\* The attachments of message i the attachment loop has gone through,
\* the one it was aborted in included.
AttachmentsSeen == IF stage = "ABORTED" THEN j + 1 ELSE j

(***************************************************************************)
(* C23: extract_skills_from_excel is called only for a message classified  *)
(* engineer, once for each attachment whose content was extracted as       *)
(* non-empty text and for no other, each call in a step of its own         *)
(* attachment, never again; for a message classified project no such call  *)
(* is made while every attachment gone through has had its upload, and no  *)
(* row of the project table carries excel_skills.                          *)
(***************************************************************************)
C23_SkillCallsOnlyForEngineer ==
    /\ log.skill > 0 => extracted # None /\ TypeIs(extracted.o, "engineer")
    /\ log.skill = log.texts /\ log.texts <= AttachmentsSeen
    /\ (extracted # None /\ TypeIs(extracted.o, "project"))
          => /\ log.skill = 0
             /\ Len(att_log) = AttachmentsSeen
             /\ stage \in {"ATTACHMENTS_RESOLVED", "WRITTEN", "WRITE_FAILED"}
                    => Len(att_log) = Len(emails[i].attachments)
    /\ \A r \in 1..Len(projectTable) : "excel_skills" \notin DOMAIN projectTable[r]

\* An engineer message whose attachment gave non-empty text has been written
\* with the skills the one call returned; then a project message with two
\* attachments has been written: both were uploaded, no skill call was made.
C23_Witness ==
    /\ stage = "WRITTEN" /\ TypeIs(extracted.o, "project")
    /\ Len(emails[i].attachments) = 2 /\ Len(att_log) = 2 /\ file_urls # <<>>
    /\ log.skill = 0 /\ log.infer >= 1
    /\ Len(engineerTable) = 1 /\ "excel_skills" \in DOMAIN engineerTable[1]

(***************************************************************************)
(* C24: an attachment is uploaded only for a message classified engineer   *)
(* or project, and a message one of whose attachments was uploaded has had *)
(* an insert attempted by the time the driver is done with it.             *)
(***************************************************************************)
C24_UploadOnlyForWrittenTypes ==
    /\ file_urls # <<>>
          => /\ extracted # None
             /\ TypeIs(extracted.o, "engineer") \/ TypeIs(extracted.o, "project")
    /\ (file_urls # <<>> /\ stage \in Finished) => log.insert = 1

(***************************************************************************)
(* One call of classify_and_extract_with_gemini in which every request     *)
(* returns: a call that is running makes its next request.                 *)
(***************************************************************************)
SpecClassifyLive ==
    SpecClassify /\ WF_vars(\E outcome \in AttemptOutcomes : ClassifyAttempt(outcome))

IsRateLimitOutcome(outcome) == outcome.kind = "exception" /\ IsRateLimit(outcome.msg)

\* The sleeps a call makes for the outcomes of its requests, when the
\* request numbered k sleeps 5 * 2^(k - 1) seconds after a rate-limit
\* outcome and not otherwise.
RECURSIVE SleepsFor(_)
SleepsFor(outs) ==
    IF outs = <<>> THEN <<>>
    ELSE SleepsFor(SubSeq(outs, 1, Len(outs) - 1))
            \o (IF IsRateLimitOutcome(outs[Len(outs)])
                THEN <<5 * (2 ^ (Len(outs) - 1))>> ELSE <<>>)

RECURSIVE SumSeq(_)
SumSeq(s) == IF s = <<>> THEN 0 ELSE s[1] + SumSeq(Tail(s))

BoundedBackoff ==
    /\ c_requests = Len(c_outcomes) /\ c_requests <= 3
    /\ c_pc = "running" => c_requests < 3
    /\ c_sleeps = SleepsFor(c_outcomes)
    /\ SumSeq(c_sleeps) <= 35

(***************************************************************************)
(* C25: whatever the outcomes of its requests, a call makes at most 3      *)
(* requests; it sleeps only right after a rate-limit outcome, 5 * 2^i      *)
(* seconds for the attempt of zero-based index i, at most 35 seconds in    *)
(* all; and a call that was started returns.                               *)
(***************************************************************************)
C25_BoundedCallTerminates ==
    /\ []BoundedBackoff
    /\ (c_pc = "running") ~> (c_pc = "returned")

\* An empty array, then two rate-limit outcomes: the sleeps are those of
\* attempts 1 and 2, not of the first and second failure.
C25_Witness ==
    /\ c_pc = "returned" /\ c_requests = 3 /\ c_result = None
    /\ c_outcomes[1] = EmptyArrayOutcome
    /\ c_outcomes[2] \in RateLimitOutcomes /\ c_outcomes[3] \in RateLimitOutcomes
    /\ c_sleeps = <<10, 20>>

\* The messages of this run counted as processed, duplicate or other.
Counted == processed_count + skipped_count + other_count

(***************************************************************************)
(* C26: throughout a run processed_count = engineer_count + project_count, *)
(* and processed_count is the number of inserts of the run that succeeded, *)
(* which is the number of rows the run has added to the two tables; no     *)
(* counter decreases during a run; a step counts at most one message, in   *)
(* one counter, as it ends that message, and a message that has ended is   *)
(* not counted again.                                                      *)
(***************************************************************************)
C26_CountersConsistent ==
    /\ [](/\ processed_count = engineer_count + project_count
          /\ processed_count = RowsAdded
          /\ processed_count = Len(writes)
          /\ Counted <= i)
    /\ [][run' = run =>
            /\ processed_count' >= processed_count
            /\ engineer_count' >= engineer_count /\ project_count' >= project_count
            /\ skipped_count' >= skipped_count /\ other_count' >= other_count
            /\ Counted' \in {Counted, Counted + 1}
            /\ Counted' = Counted + 1
                  => /\ stage' \in {"WRITTEN", "SKIPPED_DUPLICATE", "SKIPPED_OTHER"}
                     /\ stage \notin Finished \/ i' = i + 1
            /\ (stage \in Finished /\ i' = i) => Counted' = Counted]_vars

\* A run over two messages has written one as engineer and one as project.
C26_Witness ==
    /\ pc = "summary" /\ Len(emails) = 2
    /\ processed_count = 2 /\ engineer_count = 1 /\ project_count = 1
    /\ Len(engineerTable) = 1 /\ Len(projectTable) = 1

====
